---- MODULE Spec2Model ----
(***************************************************************************)
(* Model of the native DNN backend (libavfilter/dnn/dnn_backend_native.c): *)
(* the request pool, the task and last-level-task queues, synchronous and  *)
(* asynchronous execution, flush, polling and teardown.                    *)
(*                                                                         *)
(* Every C function is an operator from a state record (the fields of      *)
(* NativeModel plus the heap objects reachable from it) to a record        *)
(* [s |-> state after, ret |-> return value].  The choices the environment *)
(* makes (which layer fails, what an invalid memory access does, whether   *)
(* the executor can start a thread) are explicit oracle arguments, chosen  *)
(* by the actions.  Memory allocation is assumed to succeed.               *)
(***************************************************************************)
EXTENDS Integers, Sequences, FiniteSets, TLC

\* ------------------------------------------------------------------ bounds
MaxNireq == 2       \* ctx.options.nireq, the number of pooled requests, is 1..MaxNireq
MaxTasks == 3       \* tasks created by execute / get_output calls

\* --------------------------------------------------------------- constants
INT32_MAX == 2147483647
NoOperands == << >>  \* request->operands == NULL
DNN_SUCCESS == "DNN_SUCCESS"
DNN_GENERIC_ERROR == "DNN_GENERIC_ERROR"
EINVAL == "EINVAL"
ENOMEM == "ENOMEM"
ENOSYS == "ENOSYS"
CRASH == "CRASH"    \* the call never returned: the process died in it
Errors == {DNN_GENERIC_ERROR, EINVAL, ENOMEM, ENOSYS}

\* ------------------------------------------------- the loaded model (fixed)
\* native_model->layers_num / layers: two layers, x -> m -> y, in file order.
layers_num == 2
Layers == << [input |-> 1, output |-> 2], [input |-> 2, output |-> 3] >>

\* native_model->operands as the loader leaves them (metadata only).
LoadedOperands ==
  << [name |-> "x", type |-> "DOT_INPUT",        dims |-> <<1, 0, 0, 3>>, length |-> 0, data |-> FALSE],
     [name |-> "m", type |-> "DOT_INTERMEDIATE", dims |-> <<1, 0, 0, 3>>, length |-> 0, data |-> FALSE],
     [name |-> "y", type |-> "DOT_OUTPUT",       dims |-> <<1, 0, 0, 3>>, length |-> 0, data |-> FALSE] >>

\* ------------------------------------------------------- environment inputs
\* What a caller may pass: operand names, frame sizes, number of outputs.
P(i, o, n, f) == [input_name |-> i, output_name |-> o, nb_output |-> n, frame |-> f]
Params ==
  { P("x", "y", 1, <<2, 3>>),    \* the model's input and output, a 2x3 frame
    P("z", "y", 1, <<2, 3>>),    \* no operand has the input name
    P("x", "z", 1, <<2, 3>>),    \* no operand has the output name
    P("x", "y", 2, <<2, 3>>) }   \* two outputs requested
UBOutcomes == {"crash", "error"}  \* an invalid read: the process dies, or garbage fails the lookup

VARIABLES
  file,           \* the model file the load reads
  async,          \* ctx.options.async, fixed at load
  nireq,          \* ctx.options.nireq, fixed at load
  operands,       \* native_model->operands (the template store)
  request_queue,  \* native_model->request_queue: sequence of request ids
  requests,       \* the NativeRequestItem objects: operands, lltask, mem
  task_queue,     \* native_model->task_queue: sequence of task ids
  lltask_queue,   \* native_model->lltask_queue: sequence of lltask ids
  tasks,          \* every TaskItem ever created, by id
  lltasks,        \* every LastLevelTaskItem ever created, by id
  inflight,       \* executor threads: [req, ll, pc]
  loaded,         \* FALSE once ff_dnn_free_model_native has run
  crashed,        \* the process died in an invalid memory access
  popped,         \* history: lltask ids in the order fill popped them
  delivered,      \* history: task ids in the order polling returned them
  last            \* history: the API call that has just returned, what it found and did

vars == << file, async, nireq, operands, request_queue, requests, task_queue, lltask_queue,
           tasks, lltasks, inflight, loaded, crashed, popped, delivered, last >>

\* The mutable state handed to the C functions.
St == [ async |-> async, nireq |-> nireq, operands |-> operands, request_queue |-> request_queue,
        requests |-> requests, task_queue |-> task_queue,
        lltask_queue |-> lltask_queue, tasks |-> tasks, lltasks |-> lltasks,
        inflight |-> inflight, loaded |-> loaded, crashed |-> crashed,
        popped |-> popped, delivered |-> delivered ]

Install(s) ==
  /\ file' = file
  /\ async' = s.async
  /\ nireq' = s.nireq
  /\ operands' = s.operands
  /\ request_queue' = s.request_queue
  /\ requests' = s.requests
  /\ task_queue' = s.task_queue
  /\ lltask_queue' = s.lltask_queue
  /\ tasks' = s.tasks
  /\ lltasks' = s.lltasks
  /\ inflight' = s.inflight
  /\ loaded' = s.loaded
  /\ crashed' = s.crashed
  /\ popped' = s.popped
  /\ delivered' = s.delivered

Out(s, ret) == [s |-> s, ret |-> ret]
Die(s) == Out([s EXCEPT !.crashed = TRUE], CRASH)

\* ------------------------------------------------------------ queue library
\* ff_queue_* / ff_safe_queue_*: FIFO containers of pointers.
ff_queue_push_back(q, x) == Append(q, x)
ff_queue_peek_front(q) == IF q = << >> THEN 0 ELSE Head(q)   \* 0: NULL
ff_queue_pop_rest(q) == IF q = << >> THEN q ELSE Tail(q)
ff_queue_size(q) == Len(q)

\* ---------------------------------------------------------- pure functions
\* One step of the uint64_t product len *= dims[i], followed by the test
\* len > INT32_MAX; a negative result stands for "above INT32_MAX".  len is
\* at most INT32_MAX on entry, and a negative int32_t dimension converts to
\* a uint64_t of at least 2^64 - 2^31, so the product is above INT32_MAX
\* exactly in the cases below.
LenStep(len, d) ==
  IF len < 0 THEN len
  ELSE IF len = 0 \/ d = 0 THEN 0
  ELSE IF d < 0 THEN 0 - 1
  ELSE IF d > INT32_MAX \div len THEN 0 - 1
  ELSE len * d

\* Mutant: the product is returned whether or not it went above INT32_MAX.
ff_calculate_operand_data_length_unchecked(oprd) ==
  LenStep(LenStep(LenStep(LenStep(4, oprd.dims[1]), oprd.dims[2]), oprd.dims[3]),
          oprd.dims[4])

ff_calculate_operand_data_length(oprd) ==
  LET l1 == LenStep(4, oprd.dims[1])
      l2 == LenStep(l1, oprd.dims[2])
      l3 == LenStep(l2, oprd.dims[3])
      l4 == LenStep(l3, oprd.dims[4])
  IN  IF l4 < 0 THEN 0 ELSE l4

copy_operands(original) ==
  [i \in DOMAIN original |->
     [name |-> original[i].name, type |-> original[i].type,
      dims |-> original[i].dims, length |-> original[i].length,
      data |-> FALSE]]

\* Index of the first operand called name, 0 when there is none.
FindOperand(ops, name) ==
  LET hits == {i \in DOMAIN ops : ops[i].name = name}
  IN  IF hits = {} THEN 0 ELSE CHOOSE i \in hits : \A j \in hits : i <= j

\* ------------------------------------------------------------ the requests
native_free_request(s, r) ==
  IF s.requests[r].operands = NoOperands THEN s
  ELSE [s EXCEPT !.requests[r].operands = NoOperands]

\* ff_layer_funcs[type].pf_exec: the operator kernels are external; a layer
\* that succeeds gives its output operand the shape of its input and a buffer.
LayerExec(ops, layer) ==
  LET in == Layers[layer + 1].input
      out == Layers[layer + 1].output
      shaped == [ops[out] EXCEPT !.dims = ops[in].dims]
  IN  [ops EXCEPT ![out] = [shaped EXCEPT
                              !.length = ff_calculate_operand_data_length(shaped),
                              !.data = TRUE]]

\* The loop of native_start_inference from layer on; failAt is the index of
\* the layer whose pf_exec fails (layers_num: none does).  n counts the
\* pf_exec calls made, failed is the layer that failed (layers_num: none).
RECURSIVE RunLayers(_, _, _)
RunLayers(ops, layer, failAt) ==
  IF layer >= layers_num
  THEN [ops |-> ops, ret |-> DNN_SUCCESS, n |-> layer, failed |-> layers_num]
  ELSE IF layer = failAt
  THEN [ops |-> ops, ret |-> DNN_GENERIC_ERROR, n |-> layer + 1, failed |-> layer]
  ELSE RunLayers(LayerExec(ops, layer), layer + 1, failAt)

\* Mutant: the loop goes on to the last layer after a failure.
LayerLoop_past_failure(ops, failAt) ==
  IF failAt >= layers_num
  THEN [ops |-> LayerExec(LayerExec(ops, 0), 1), ret |-> DNN_SUCCESS,
        n |-> layers_num, failed |-> layers_num]
  ELSE [ops |-> ops, ret |-> DNN_GENERIC_ERROR, n |-> layers_num, failed |-> failAt]

\* The loop of native_start_inference.
LayerLoop(ops, failAt) == RunLayers(ops, 0, failAt)

LayerLog(n) == [i \in 1..n |-> i - 1]

\* Mutant: a failed inference does not return the request to the pool.
InferenceResult_keeps_request(s, r, ll, run) ==
  IF run.ret # DNN_SUCCESS
  THEN Out([s EXCEPT !.lltasks[ll].layers = @ \o LayerLog(run.n),
                     !.lltasks[ll].failed = run.failed,
                     !.lltasks[ll].stage = "layer_failed",
                     !.requests[r].operands = NoOperands],
           run.ret)
  ELSE Out([s EXCEPT !.lltasks[ll].layers = @ \o LayerLog(run.n),
                     !.lltasks[ll].stage = "ran",
                     !.requests[r].operands = run.ops],
           DNN_SUCCESS)

\* native_start_inference after its loop: run is what the loop did.
InferenceResult(s, r, ll, run) ==
  IF run.ret # DNN_SUCCESS
  THEN Out([s EXCEPT !.lltasks[ll].layers = @ \o LayerLog(run.n),
                     !.lltasks[ll].failed = run.failed,
                     !.lltasks[ll].stage = "layer_failed",
                     !.requests[r].operands = NoOperands,
                     !.request_queue = ff_queue_push_back(@, r)],
           run.ret)
  ELSE Out([s EXCEPT !.lltasks[ll].layers = @ \o LayerLog(run.n),
                     !.lltasks[ll].stage = "ran",
                     !.requests[r].operands = run.ops],
           DNN_SUCCESS)

native_start_inference(s, r, failAt) ==
  InferenceResult(s, r, s.requests[r].lltask, LayerLoop(s.requests[r].operands, failAt))

\* ------------------------------------------------------- tasks and lltasks
\* layers, failed and stage are history: the layers run for the lltask, the
\* layer that failed (layers_num: none) and how far it got (queued,
\* filled / fill_failed, ran / layer_failed, done / no_output).
NewLLTask(t) ==
  [task |-> t, mem |-> "live", layers |-> << >>, failed |-> layers_num, stage |-> "queued"]

\* Mutant: the new lltask goes to the front of the queue.
extract_lltask_push_front(s, t) ==
  LET ll == Len(s.lltasks) + 1
  IN  Out([s EXCEPT !.tasks[t].inference_todo = 1,
                    !.tasks[t].inference_done = 0,
                    !.lltasks = Append(@, NewLLTask(t)),
                    !.lltask_queue = <<ll>> \o @],
          DNN_SUCCESS)

extract_lltask_from_task(s, t) ==
  LET ll == Len(s.lltasks) + 1
  IN  Out([s EXCEPT !.tasks[t].inference_todo = 1,
                    !.tasks[t].inference_done = 0,
                    !.lltasks = Append(@, NewLLTask(t)),
                    !.lltask_queue = ff_queue_push_back(@, ll)],
          DNN_SUCCESS)

\* Mutant: the frame's width goes to dims[1] and its height to dims[2].
FillBody_swapped(s, r, ub) ==
  LET ll == ff_queue_peek_front(s.lltask_queue)
      t == s.lltasks[ll].task
      task == s.tasks[t]
      s1 == [s EXCEPT !.lltask_queue = ff_queue_pop_rest(@),
                      !.popped = Append(@, ll),
                      !.requests[r].lltask = ll]
      ops == s1.requests[r].operands
      i == FindOperand(ops, task.input_name)
      sized == [ops[i] EXCEPT !.dims[2] = task.in_frame.w,
                              !.dims[3] = task.in_frame.h,
                              !.data = FALSE]
      length == ff_calculate_operand_data_length(sized)
      s2 == [s1 EXCEPT !.requests[r].operands[i] = [sized EXCEPT !.length = length]]
      s3 == [s2 EXCEPT !.requests[r].operands[i].data = TRUE]
  IN  IF layers_num <= 0 \/ Len(s.operands) <= 0 THEN Out(s1, DNN_GENERIC_ERROR)
      ELSE IF ops = NoOperands \/ task.mem # "live"
           THEN (IF ub = "crash" THEN Die(s1) ELSE Out(s1, EINVAL))
      ELSE IF i = 0 THEN Out(s1, EINVAL)
      ELSE IF ops[i].type # "DOT_INPUT" THEN Out(s1, DNN_GENERIC_ERROR)
      ELSE IF length <= 0 THEN Out(s2, EINVAL)
      ELSE IF task.nb_output # 1 THEN Out(s3, ENOSYS)
      ELSE Out(s3, DNN_SUCCESS)

\* Mutant: the shape of the frame is written to the model's operand too.
FillBody_in_template(s, r, ub) ==
  LET ll == ff_queue_peek_front(s.lltask_queue)
      t == s.lltasks[ll].task
      task == s.tasks[t]
      s1 == [s EXCEPT !.lltask_queue = ff_queue_pop_rest(@),
                      !.popped = Append(@, ll),
                      !.requests[r].lltask = ll]
      ops == s1.requests[r].operands
      i == FindOperand(ops, task.input_name)
      sized == [ops[i] EXCEPT !.dims[2] = task.in_frame.h,
                              !.dims[3] = task.in_frame.w,
                              !.data = FALSE]
      length == ff_calculate_operand_data_length(sized)
      s2 == [s1 EXCEPT !.requests[r].operands[i] = [sized EXCEPT !.length = length],
                       !.operands[i] = [sized EXCEPT !.length = length]]
      s3 == [s2 EXCEPT !.requests[r].operands[i].data = TRUE]
  IN  IF layers_num <= 0 \/ Len(s.operands) <= 0 THEN Out(s1, DNN_GENERIC_ERROR)
      ELSE IF ops = NoOperands \/ task.mem # "live"
           THEN (IF ub = "crash" THEN Die(s1) ELSE Out(s1, EINVAL))
      ELSE IF i = 0 THEN Out(s1, EINVAL)
      ELSE IF ops[i].type # "DOT_INPUT" THEN Out(s1, DNN_GENERIC_ERROR)
      ELSE IF length <= 0 THEN Out(s2, EINVAL)
      ELSE IF task.nb_output # 1 THEN Out(s3, ENOSYS)
      ELSE Out(s3, DNN_SUCCESS)

\* fill_model_input_native.  ub is what an invalid read does when the popped
\* lltask points at a task that no longer exists or the request has lost its
\* operand array.
FillBody(s, r, ub) ==
  LET ll == ff_queue_peek_front(s.lltask_queue)
      t == s.lltasks[ll].task
      task == s.tasks[t]
      s1 == [s EXCEPT !.lltask_queue = ff_queue_pop_rest(@),
                      !.popped = Append(@, ll),
                      !.requests[r].lltask = ll]
      ops == s1.requests[r].operands
      i == FindOperand(ops, task.input_name)
      sized == [ops[i] EXCEPT !.dims[2] = task.in_frame.h,
                              !.dims[3] = task.in_frame.w,
                              !.data = FALSE]
      length == ff_calculate_operand_data_length(sized)
      s2 == [s1 EXCEPT !.requests[r].operands[i] = [sized EXCEPT !.length = length]]
      s3 == [s2 EXCEPT !.requests[r].operands[i].data = TRUE]
  IN  IF layers_num <= 0 \/ Len(s.operands) <= 0 THEN Out(s1, DNN_GENERIC_ERROR)
      ELSE IF ops = NoOperands \/ task.mem # "live"
           THEN (IF ub = "crash" THEN Die(s1) ELSE Out(s1, EINVAL))
      ELSE IF i = 0 THEN Out(s1, EINVAL)
      ELSE IF ops[i].type # "DOT_INPUT" THEN Out(s1, DNN_GENERIC_ERROR)
      ELSE IF length <= 0 THEN Out(s2, EINVAL)
      ELSE IF task.nb_output # 1 THEN Out(s3, ENOSYS)
      ELSE Out(s3, DNN_SUCCESS)

\* History: how the fill of lltask ll ended.
FillMark(b, ll) ==
  IF b.s.crashed THEN b
  ELSE Out([b.s EXCEPT !.lltasks[ll].stage = IF b.ret = DNN_SUCCESS THEN "filled"
                                             ELSE "fill_failed"],
           b.ret)

fill_model_input_native(s, r, ub) ==
  IF s.lltask_queue = << >> THEN Out(s, EINVAL)
  ELSE FillMark(FillBody(s, r, ub), ff_queue_peek_front(s.lltask_queue))

\* Mutant: the inference is counted on the err: path too.
infer_completion_callback_counts_failure(s, r) ==
  LET ll == s.requests[r].lltask
      t == s.lltasks[ll].task
      task == s.tasks[t]
      ops == s.requests[r].operands
      j == FindOperand(ops, task.output_name)
      output == [h |-> ops[j].dims[2], w |-> ops[j].dims[3]]
      done == [s EXCEPT !.tasks[t].out_frame =
                           IF task.do_ioproc THEN [@ EXCEPT !.filled = TRUE]
                           ELSE [@ EXCEPT !.h = output.h, !.w = output.w],
                        !.tasks[t].inference_done = @ + 1,
                        !.lltasks[ll].stage = "done"]
      err == [s EXCEPT !.lltasks[ll].stage = "no_output",
                       !.tasks[t].inference_done = @ + 1]
      after == IF j = 0 THEN err ELSE done
  IN  [after EXCEPT !.request_queue = ff_queue_push_back(@, r)]

\* Mutant: the request is pushed back to the pool twice.
infer_completion_callback_pushes_twice(s, r) ==
  LET ll == s.requests[r].lltask
      t == s.lltasks[ll].task
      task == s.tasks[t]
      ops == s.requests[r].operands
      j == FindOperand(ops, task.output_name)
      output == [h |-> ops[j].dims[2], w |-> ops[j].dims[3]]
      done == [s EXCEPT !.tasks[t].out_frame =
                           IF task.do_ioproc THEN [@ EXCEPT !.filled = TRUE]
                           ELSE [@ EXCEPT !.h = output.h, !.w = output.w],
                        !.tasks[t].inference_done = @ + 1,
                        !.lltasks[ll].stage = "done"]
      err == [s EXCEPT !.lltasks[ll].stage = "no_output"]
      after == IF j = 0 THEN err ELSE done
  IN  [after EXCEPT !.request_queue = ff_queue_push_back(ff_queue_push_back(@, r), r)]

\* Mutant: a finished inference is counted twice.
infer_completion_callback_counts_twice(s, r) ==
  LET ll == s.requests[r].lltask
      t == s.lltasks[ll].task
      task == s.tasks[t]
      ops == s.requests[r].operands
      j == FindOperand(ops, task.output_name)
      output == [h |-> ops[j].dims[2], w |-> ops[j].dims[3]]
      done == [s EXCEPT !.tasks[t].out_frame =
                           IF task.do_ioproc THEN [@ EXCEPT !.filled = TRUE]
                           ELSE [@ EXCEPT !.h = output.h, !.w = output.w],
                        !.tasks[t].inference_done = @ + 2,
                        !.lltasks[ll].stage = "done"]
      err == [s EXCEPT !.lltasks[ll].stage = "no_output"]
      after == IF j = 0 THEN err ELSE done
  IN  [after EXCEPT !.request_queue = ff_queue_push_back(@, r)]

\* infer_completion_callback: copy the output out, count the inference,
\* return the request.
infer_completion_callback(s, r) ==
  LET ll == s.requests[r].lltask
      t == s.lltasks[ll].task
      task == s.tasks[t]
      ops == s.requests[r].operands
      j == FindOperand(ops, task.output_name)
      output == [h |-> ops[j].dims[2], w |-> ops[j].dims[3]]
      done == [s EXCEPT !.tasks[t].out_frame =
                           IF task.do_ioproc THEN [@ EXCEPT !.filled = TRUE]
                           ELSE [@ EXCEPT !.h = output.h, !.w = output.w],
                        !.tasks[t].inference_done = @ + 1,
                        !.lltasks[ll].stage = "done"]
      err == [s EXCEPT !.lltasks[ll].stage = "no_output"]
      after == IF j = 0 THEN err ELSE done
  IN  [after EXCEPT !.request_queue = ff_queue_push_back(@, r)]

\* ------------------------------------------------------------ the executor
\* ff_dnn_start_inference_async: hand start_inference + callback to a thread
\* of its own; startFail: the thread could not be created.
ff_dnn_start_inference_async(s, r, startFail) ==
  IF startFail THEN Out(s, DNN_GENERIC_ERROR)
  ELSE Out([s EXCEPT !.inflight = @ \cup {[req |-> r, ll |-> s.requests[r].lltask,
                                            pc |-> "infer"]}],
           DNN_SUCCESS)

\* Mutant: a synchronous execution that reached the callback reports success.
SyncResultAlwaysSuccess(task) == DNN_SUCCESS

\* The value execute_model_native returns for a synchronous task.
SyncResult(task) ==
  IF task.inference_done = task.inference_todo THEN DNN_SUCCESS ELSE DNN_GENERIC_ERROR

\* The err: label of execute_model_native.
ExecuteErr(s, r, ret) ==
  Out([native_free_request(s, r) EXCEPT !.request_queue = ff_queue_push_back(@, r)], ret)

\* execute_model_native, synchronous branch: c is the state the callback left.
SyncReturn(c, t) == Out(c, SyncResult(c.tasks[t]))

\* ... n is what native_start_inference returned.
AfterInference(n, r, t) ==
  IF n.ret # DNN_SUCCESS THEN ExecuteErr(n.s, r, n.ret)
  ELSE SyncReturn(infer_completion_callback(n.s, r), t)

\* execute_model_native, asynchronous branch: a is what the executor returned.
AfterStart(a, r) ==
  IF a.ret # DNN_SUCCESS THEN ExecuteErr(a.s, r, a.ret) ELSE a

\* execute_model_native after fill_model_input_native returned f for task t.
AfterFill(f, r, o, t) ==
  IF f.s.crashed THEN f
  ELSE IF f.ret # DNN_SUCCESS THEN ExecuteErr(f.s, r, f.ret)
  ELSE IF f.s.tasks[t].async
       THEN AfterStart(ff_dnn_start_inference_async(f.s, r, o.startFail), r)
  ELSE AfterInference(native_start_inference(f.s, r, o.failAt), r, t)

\* o = [failAt, ub, startFail]: the environment's choices during the call.
execute_model_native(s, r, o) ==
  IF s.lltask_queue = << >>
  THEN Out([s EXCEPT !.requests[r] = [@ EXCEPT !.operands = NoOperands, !.mem = "freed"]],
           EINVAL)
  ELSE AfterFill(fill_model_input_native(s, r, o.ub), r, o,
                 s.lltasks[ff_queue_peek_front(s.lltask_queue)].task)

\* ----------------------------------------------------------------- the API
\* ff_check_exec_params: non-zero unless exactly one output is requested.
ff_check_exec_params(p) == IF p.nb_output # 1 THEN 1 ELSE 0

\* The TaskItem that ff_dnn_fill_task / ff_dnn_fill_gettingoutput_task set up.
NewTask(p, isAsync, doIoproc) ==
  [input_name |-> p.input_name, output_name |-> p.output_name,
   nb_output |-> p.nb_output, async |-> isAsync, do_ioproc |-> doIoproc,
   in_frame |-> [h |-> p.frame[1], w |-> p.frame[2], st |-> "held"],
   out_frame |-> [h |-> 0, w |-> 0, filled |-> FALSE, st |-> "held"],
   inference_todo |-> 0, inference_done |-> 0, mem |-> "live"]

ff_dnn_fill_task(s, p) == [s EXCEPT !.tasks = Append(@, NewTask(p, s.async, TRUE))]

ff_dnn_fill_gettingoutput_task(s, p) ==
  [s EXCEPT !.tasks = Append(@, NewTask(p, FALSE, FALSE))]

\* Mutant: the task goes to the front of the task queue.
PushTaskFront(s, t) == [s EXCEPT !.task_queue = <<t>> \o @]

\* ff_dnn_execute_model_native: the task joins the task queue.
PushTask(s, t) == [s EXCEPT !.task_queue = ff_queue_push_back(@, t)]

\* Take a request from the pool and execute with it, or fail when there is none.
AcquireAndExecute(s, o) ==
  IF ff_queue_peek_front(s.request_queue) = 0 THEN Out(s, EINVAL)
  ELSE execute_model_native([s EXCEPT !.request_queue = ff_queue_pop_rest(@)],
                            ff_queue_peek_front(s.request_queue), o)

\* ff_dnn_execute_model_native once the parameters have been accepted; the
\* new task is number Len(s.tasks) + 1.
SubmitTask(s, p, o) ==
  AcquireAndExecute(
    extract_lltask_from_task(PushTask(ff_dnn_fill_task(s, p), Len(s.tasks) + 1),
                             Len(s.tasks) + 1).s,
    o)

\* Mutant: the parameters are not checked before the task is queued.
ff_dnn_execute_model_native_unchecked(s, p, o) == SubmitTask(s, p, o)

ff_dnn_execute_model_native(s, p, o) ==
  IF ff_check_exec_params(p) # 0 THEN Out(s, EINVAL)
  ELSE SubmitTask(s, p, o)

\* The err: label of get_output_native: the frames go, and with the return
\* the stack TaskItem itself.
GetOutputErr(out, t) ==
  IF out.s.crashed THEN out
  ELSE Out([out.s EXCEPT !.tasks[t].in_frame.st = "released",
                         !.tasks[t].out_frame.st = "released",
                         !.tasks[t].mem = "dead"],
           out.ret)

get_output_native(s, p, o) ==
  GetOutputErr(
    AcquireAndExecute(
      extract_lltask_from_task(ff_dnn_fill_gettingoutput_task(s, p), Len(s.tasks) + 1).s,
      o),
    Len(s.tasks) + 1)

\* The err: label of ff_dnn_flush_native.
FlushErr(s, r, ret) ==
  Out([s EXCEPT !.request_queue = ff_queue_push_back(@, r)], ret)

\* ff_dnn_flush_native after the executor returned a.
FlushStarted(a, request) ==
  IF a.ret # DNN_SUCCESS THEN FlushErr(a.s, request, a.ret)
  ELSE Out(a.s, DNN_SUCCESS)

\* ff_dnn_flush_native after fill_model_input_native returned f.
FlushFilled(f, request, o) ==
  IF f.s.crashed THEN f
  ELSE IF f.ret # DNN_SUCCESS THEN FlushErr(f.s, request, f.ret)
  ELSE FlushStarted(ff_dnn_start_inference_async(f.s, request, o.startFail), request)

ff_dnn_flush_native(s, o) ==
  IF ff_queue_size(s.lltask_queue) = 0 THEN Out(s, DNN_SUCCESS)
  ELSE IF ff_queue_peek_front(s.request_queue) = 0 THEN Out(s, EINVAL)
  ELSE FlushFilled(
         fill_model_input_native([s EXCEPT !.request_queue = ff_queue_pop_rest(@)],
                                 ff_queue_peek_front(s.request_queue), o.ub),
         ff_queue_peek_front(s.request_queue), o)

\* ff_dnn_get_result_common on the task queue: hand out the head task's
\* frames once all its inferences are done.
ff_dnn_get_result_common(s) ==
  LET t == ff_queue_peek_front(s.task_queue)
  IN  IF t = 0 THEN Out(s, "DAST_EMPTY_QUEUE")
      ELSE IF s.tasks[t].inference_done # s.tasks[t].inference_todo
           THEN Out(s, "DAST_NOT_READY")
      ELSE Out([s EXCEPT !.task_queue = ff_queue_pop_rest(@),
                         !.tasks[t].in_frame.st = "returned",
                         !.tasks[t].out_frame.st = "returned",
                         !.tasks[t].mem = "freed",
                         !.delivered = Append(@, t)],
               "DAST_SUCCESS")

ff_dnn_get_result_native(s) == ff_dnn_get_result_common(s)

\* The request loop of ff_dnn_free_model_native.  An item popped a second
\* time has already been freed: ub is what that double free does.
RECURSIVE FreeRequests(_, _)
FreeRequests(s, ub) ==
  IF ff_queue_size(s.request_queue) = 0 THEN s
  ELSE
    LET item == ff_queue_peek_front(s.request_queue)
        s1 == [s EXCEPT !.request_queue = ff_queue_pop_rest(@)]
        s2 == [native_free_request(s1, item) EXCEPT !.requests[item].mem = "freed"]
    IN  IF s.requests[item].mem = "freed"
        THEN (IF ub = "crash" THEN [s1 EXCEPT !.crashed = TRUE] ELSE FreeRequests(s1, ub))
        ELSE FreeRequests(s2, ub)

FreeLLTasks(s) ==
  [s EXCEPT !.lltasks = [ll \in DOMAIN s.lltasks |->
                           IF \E k \in DOMAIN s.lltask_queue : s.lltask_queue[k] = ll
                           THEN [s.lltasks[ll] EXCEPT !.mem = "freed"]
                           ELSE s.lltasks[ll]],
            !.lltask_queue = << >>]

FreeTasks(s) ==
  [s EXCEPT !.tasks = [t \in DOMAIN s.tasks |->
                         IF \E k \in DOMAIN s.task_queue : s.task_queue[k] = t
                         THEN [s.tasks[t] EXCEPT !.in_frame.st = "released",
                                                 !.out_frame.st = "released",
                                                 !.mem = "freed"]
                         ELSE s.tasks[t]],
            !.task_queue = << >>]

\* ff_dnn_free_model_native after its request loop left state s.
FreeQueues(s) ==
  IF s.crashed THEN Out(s, CRASH)
  ELSE Out([FreeTasks(FreeLLTasks(s)) EXCEPT !.loaded = FALSE], DNN_SUCCESS)

ff_dnn_free_model_native(s, ub) ==
  FreeQueues(FreeRequests([s EXCEPT !.operands = << >>], ub))

\* --------------------------------------------------------------- the loader
\* A model file as the loader reads it: whether the first 15 bytes are the
\* magic, the major version, the two counts of the 8-byte footer, the layer
\* records (whether the type code is below DLT_COUNT, and the byte count
\* pf_load returns, 0 for a failure), the operand records, and the length of
\* the file in bytes.
major_version_expected == 1

\* The bytes of a file with these records: magic, two versions, a type code
\* and a body per layer, seven 32-bit fields, four dimensions among them,
\* and a name per operand, and the footer.
RECURSIVE SumLayers(_, _)
SumLayers(layers, n) ==
  IF n = 0 THEN 0 ELSE SumLayers(layers, n - 1) + 4 + layers[n].parsed
RECURSIVE SumOperands(_, _)
SumOperands(oprds, n) ==
  IF n = 0 THEN 0 ELSE SumOperands(oprds, n - 1) + 4 + 4 + oprds[n].name_len + 4 + 4 + 16
FileLength(f) ==
  15 + 4 + 4 + SumLayers(f.layers, Len(f.layers)) + SumOperands(f.oprds, Len(f.oprds)) + 8

\* The well-formed file of a model with these operands and n layers.
ModelFileOf(ops, n) ==
  LET f == [magic |-> TRUE, major |-> major_version_expected,
            layers_num |-> n, operands_num |-> Len(ops),
            layers |-> [i \in 1..n |-> [known |-> TRUE, parsed |-> 8]],
            oprds |-> [i \in DOMAIN ops |->
                         [index |-> i - 1, name_len |-> 1, name |-> ops[i].name,
                          type |-> ops[i].type, dims |-> ops[i].dims]],
            size |-> 0]
  IN  [f EXCEPT !.size = FileLength(f)]
ModelFile == ModelFileOf(LoadedOperands, layers_num)

\* An operand of the store as av_mallocz leaves it.
ZeroOperand ==
  [name |-> "", type |-> "0", dims |-> <<0, 0, 0, 0>>, length |-> 0, data |-> FALSE]

\* The layer loop of ff_dnn_load_model_native from layer on.
RECURSIVE LoadLayers(_, _, _)
LoadLayers(f, layer, dnn_size) ==
  IF layer >= f.layers_num THEN [ok |-> TRUE, dnn_size |-> dnn_size]
  ELSE IF ~f.layers[layer + 1].known THEN [ok |-> FALSE, dnn_size |-> dnn_size + 4]
  ELSE IF f.layers[layer + 1].parsed = 0 THEN [ok |-> FALSE, dnn_size |-> dnn_size + 4]
  ELSE LoadLayers(f, layer + 1, dnn_size + 4 + f.layers[layer + 1].parsed)

\* Mutant: an input operand of any batch size is accepted.
InputBatchOk_unchecked(oprd) == TRUE

\* The test on each operand record once it is stored.
InputBatchOk(oprd) == ~(oprd.type = "DOT_INPUT" /\ oprd.dims[1] # 1)

\* The record stored at operands[index]; a negative index is below the
\* store, and the write lands outside it.
StoreOperand(p, index, oprd) ==
  IF index < 0 THEN [p EXCEPT !.stray = @ \cup {index}]
  ELSE [p EXCEPT !.operands[index + 1] = oprd]

\* The operand loop of ff_dnn_load_model_native from record i on.  p is the
\* parse so far; ub is what a write below the store does.
RECURSIVE LoadOperands(_, _, _, _)
LoadOperands(f, i, p, ub) ==
  IF i >= f.operands_num THEN p
  ELSE
    LET rec == f.oprds[i + 1]
        oprd == [name |-> rec.name, type |-> rec.type, dims |-> rec.dims,
                 length |-> 0, data |-> FALSE]
        read == p.dnn_size + 4 + 4 + rec.name_len + 4 + 4 + 16
    IN  IF rec.index >= f.operands_num
        THEN [p EXCEPT !.ok = FALSE, !.dnn_size = @ + 4]
        ELSE IF rec.index < 0 /\ ub = "crash"
        THEN [p EXCEPT !.ok = FALSE, !.crashed = TRUE, !.dnn_size = @ + 4 + 4]
        ELSE IF ~InputBatchOk(oprd)
        THEN [StoreOperand(p, rec.index, oprd) EXCEPT !.ok = FALSE, !.dnn_size = read]
        ELSE LoadOperands(f, i + 1,
                          [StoreOperand(p, rec.index, oprd) EXCEPT !.dnn_size = read], ub)

\* The state before a load and after a failed one, which frees all it built.
Unloaded(opts) ==
  [async |-> opts.async, nireq |-> opts.nireq, operands |-> << >>,
   request_queue |-> << >>, requests |-> << >>, task_queue |-> << >>,
   lltask_queue |-> << >>, tasks |-> << >>, lltasks |-> << >>, inflight |-> {},
   loaded |-> FALSE, crashed |-> FALSE, popped |-> << >>, delivered |-> << >>]

\* What a load hands back: the state, the pointer returned, the running
\* total dnn_size on leaving and the indices written outside the store.
Load(s, ret, dnn_size, stray) ==
  [s |-> s, ret |-> ret, dnn_size |-> dnn_size, stray |-> stray]
LoadFail(opts, dnn_size, stray) == Load(Unloaded(opts), "NULL", dnn_size, stray)

\* Mutant: the running total is not compared with the length of the file.
SizeMatches_unchecked(dnn_size, file_size) == TRUE

SizeMatches(dnn_size, file_size) == dnn_size = file_size

\* ff_dnn_load_model_native after the operand loop left p.
AfterOperands(f, opts, p) ==
  IF p.crashed
  THEN Load([Unloaded(opts) EXCEPT !.crashed = TRUE], CRASH, p.dnn_size, p.stray)
  ELSE IF ~p.ok THEN LoadFail(opts, p.dnn_size, p.stray)
  ELSE IF ~SizeMatches(p.dnn_size, f.size) THEN LoadFail(opts, p.dnn_size, p.stray)
  ELSE Load([Unloaded(opts) EXCEPT
               !.operands = p.operands,
               !.request_queue = [i \in 1..opts.nireq |-> i],
               !.requests = [i \in 1..opts.nireq |->
                               [operands |-> copy_operands(p.operands),
                                lltask |-> 0, mem |-> "live"]],
               !.loaded = TRUE],
            "MODEL", p.dnn_size, p.stray)

\* ... after the layer loop left l.
AfterLayers(f, opts, ub, l) ==
  IF ~l.ok THEN LoadFail(opts, l.dnn_size, {})
  ELSE AfterOperands(f, opts,
         LoadOperands(f, 0,
                      [ok |-> TRUE, dnn_size |-> l.dnn_size, crashed |-> FALSE,
                       operands |-> [i \in 1..f.operands_num |-> ZeroOperand],
                       stray |-> {}],
                      ub))

ff_dnn_load_model_native(f, opts, ub) ==
  IF ~f.magic THEN LoadFail(opts, 0, {})
  ELSE IF f.major # major_version_expected THEN LoadFail(opts, 15 + 4, {})
  ELSE AfterLayers(f, opts, ub, LoadLayers(f, 0, 15 + 4 + 4 + 8))

\* get_input_native: the shape of the input operand called name; av_assert0
\* aborts the process.
get_input_native(s, name) ==
  LET i == FindOperand(s.operands, name)
  IN  IF i = 0 THEN Out(s, EINVAL)
      ELSE IF s.operands[i].type # "DOT_INPUT" THEN Out(s, EINVAL)
      ELSE IF s.operands[i].dims[1] # 1 THEN Die(s)
      ELSE Out(s, DNN_SUCCESS)

\* ------------------------------------------------------- the state machine
\* The environment's choices during one call, limited to those the call can
\* consult.  fill_model_input_native reads invalid memory when the request
\* it is given has lost its operand array or the subtask at the front of the
\* queue points at a task that no longer exists; teardown frees twice when a
\* request is queued twice or was freed while queued.  Layers run inline only
\* for a synchronous task; the executor is only asked for a thread by an
\* asynchronous task or by flush.
FillUB ==
  /\ request_queue # << >>
  /\ \/ requests[ff_queue_peek_front(request_queue)].operands = NoOperands
     \/ /\ lltask_queue # << >>
        /\ tasks[lltasks[ff_queue_peek_front(lltask_queue)].task].mem # "live"
FreeUB ==
  \/ \E k \in DOMAIN request_queue : requests[request_queue[k]].mem # "live"
  \/ \E i, j \in DOMAIN request_queue : i # j /\ request_queue[i] = request_queue[j]
UBChoices(possible) == IF possible THEN UBOutcomes ELSE {"crash"}
Oracles(inline, threads) ==
  [failAt : IF inline THEN 0..layers_num ELSE {layers_num},
   ub : UBChoices(FillUB),
   startFail : IF threads THEN BOOLEAN ELSE {FALSE}]

\* The choices a call that acquires a request can meet: none when the pool is
\* empty; otherwise those of the subtask at the front of the queue, which is
\* the oldest one queued or, when none is queued, the call's own.
FrontAsync(isAsync) ==
  IF lltask_queue = << >> THEN isAsync
  ELSE tasks[lltasks[ff_queue_peek_front(lltask_queue)].task].async
CallOracles(isAsync) ==
  IF request_queue = << >> THEN Oracles(FALSE, FALSE)
  ELSE Oracles(~FrontAsync(isAsync), FrontAsync(isAsync))
FlushOracles ==
  IF request_queue = << >> \/ lltask_queue = << >> THEN Oracles(FALSE, FALSE)
  ELSE Oracles(FALSE, TRUE)

\* How many lltasks had layers run / their callback invoked between s and s2.
LayersOf(s, ll) == IF ll \in DOMAIN s.lltasks THEN Len(s.lltasks[ll].layers) ELSE 0
CalledBack(s, ll) == ll \in DOMAIN s.lltasks /\ s.lltasks[ll].stage \in {"done", "no_output"}
RanIn(s, s2) == Cardinality({ll \in DOMAIN s2.lltasks : LayersOf(s2, ll) # LayersOf(s, ll)})
CbsIn(s, s2) == Cardinality({ll \in DOMAIN s2.lltasks : CalledBack(s2, ll) /\ ~CalledBack(s, ll)})

\* The record kept of an API call: what it returned and, for the calls that
\* acquire a request (execute, flush), that reject (execute) or that tear
\* down (free), what they found on entry and what they did.
Summary(op, s, out, t, nb) ==
  LET acquires == op \in {"execute", "flush"}
      frees == op = "free"
  IN  [op |-> op, ret |-> out.ret, value |-> 0, stray |-> {}, task |-> t, nb_output |-> nb,
       idle |-> IF acquires THEN Len(s.request_queue) ELSE 0,
       pending |-> IF acquires THEN Len(s.lltask_queue) ELSE 0,
       left |-> IF op = "flush" THEN Len(out.s.lltask_queue) ELSE 0,
       queued |-> IF frees THEN {s.task_queue[k] : k \in DOMAIN s.task_queue} ELSE {},
       ran |-> IF acquires \/ frees THEN RanIn(s, out.s) ELSE 0,
       cbs |-> IF acquires \/ frees THEN CbsIn(s, out.s) ELSE 0,
       started |-> IF acquires THEN Cardinality(out.s.inflight \ s.inflight) ELSE 0,
       same |-> IF op = "execute" /\ nb # 1 THEN out.s = s ELSE FALSE]

\* The record when no API call has just returned.
NoCall ==
  [op |-> "none", ret |-> DNN_SUCCESS, value |-> 0, stray |-> {}, task |-> 0, nb_output |-> 0,
   idle |-> 0, pending |-> 0, left |-> 0, queued |-> {},
   ran |-> 0, cbs |-> 0, started |-> 0, same |-> FALSE]

\* The model is loaded and the process alive; Ready: and the caller has taken
\* the result of its last call.
Running == loaded /\ ~crashed
Ready == Running /\ last = NoCall

Init ==
  /\ file = ModelFile
  /\ async \in BOOLEAN
  /\ nireq \in 1..MaxNireq
  /\ operands = LoadedOperands
  /\ request_queue = [i \in 1..nireq |-> i]
  /\ requests = [i \in 1..nireq |->
                   [operands |-> copy_operands(LoadedOperands), lltask |-> 0, mem |-> "live"]]
  /\ task_queue = << >>
  /\ lltask_queue = << >>
  /\ tasks = << >>
  /\ lltasks = << >>
  /\ inflight = {}
  /\ loaded = TRUE
  /\ crashed = FALSE
  /\ popped = << >>
  /\ delivered = << >>
  /\ last = NoCall

\* An API call: the state it leaves and the record of it.
Call(op, out, t, nb) ==
  /\ Install(out.s)
  /\ last' = Summary(op, St, out, t, nb)

\* The id of the task an execute call created, 0 when it created none.
Created(p) == IF ff_check_exec_params(p) # 0 THEN 0 ELSE Len(tasks) + 1

ExecuteModel ==
  /\ Ready /\ Len(tasks) < MaxTasks
  /\ \E p \in Params, o \in CallOracles(async) :
       Call("execute", ff_dnn_execute_model_native(St, p, o), Created(p), p.nb_output)

GetOutput ==
  /\ Ready /\ Len(tasks) < MaxTasks
  /\ \E p \in Params, o \in CallOracles(FALSE) :
       /\ p.nb_output = 1
       /\ Call("get_output", get_output_native(St, p, o), Len(tasks) + 1, 1)

Flush ==
  /\ Ready
  /\ \E o \in FlushOracles :
       Call("flush", ff_dnn_flush_native(St, o), 0, 0)

GetResult ==
  /\ Ready
  /\ Call("get_result", ff_dnn_get_result_native(St), ff_queue_peek_front(task_queue), 0)

\* The executor thread e after start_inference returned n: on success it
\* goes on to the callback, on failure it ends.
ThreadAfterInference(n, e) ==
  Install([n.s EXCEPT !.inflight =
             IF n.ret = DNN_SUCCESS
             THEN (@ \ {e}) \cup {[e EXCEPT !.pc = "callback"]}
             ELSE @ \ {e}])

WorkerInference ==
  /\ Ready
  /\ \E e \in inflight, failAt \in 0..layers_num :
       /\ e.pc = "infer"
       /\ ThreadAfterInference(native_start_inference(St, e.req, failAt), e)
  /\ UNCHANGED last

WorkerCallback ==
  /\ Ready
  /\ \E e \in inflight :
       /\ e.pc = "callback"
       /\ Install([infer_completion_callback(St, e.req) EXCEPT !.inflight = @ \ {e}])
  /\ UNCHANGED last

\* Teardown; the caller has let the executor threads finish.
FreeModel ==
  /\ Ready /\ inflight = {}
  /\ \E ub \in UBChoices(FreeUB) :
       Call("free", ff_dnn_free_model_native(St, ub), 0, 0)

\* The caller takes the result of the call that has just returned.
Return ==
  /\ Running /\ last # NoCall
  /\ last' = NoCall
  /\ UNCHANGED << file, async, nireq, operands, request_queue, requests,
                  task_queue, lltask_queue, tasks, lltasks, inflight, loaded,
                  crashed, popped, delivered >>

Next ==
  \/ ExecuteModel
  \/ GetOutput
  \/ Flush
  \/ GetResult
  \/ WorkerInference
  \/ WorkerCallback
  \/ FreeModel
  \/ Return

Spec == Init /\ [][Next]_vars

\* ------------------------------------------ shapes and lengths on their own
\* fill_model_input_native and ff_calculate_operand_data_length over a range
\* of shapes: execute_model_native has taken the only request and is about
\* to fill it from the only subtask.
Dims == {0 - 1, 0, 1, 3, 23170, 32768}   \* dimensions a model file can hold
FrameDims == {0, 3, 23170, 32768}         \* heights and widths of a frame

\* The operand store of a model whose intermediate operand has shape d and
\* whose input and output have d[4] channels.
ShapedOperands(d) ==
  << [name |-> "x", type |-> "DOT_INPUT",        dims |-> <<1, 0, 0, d[4]>>, length |-> 0, data |-> FALSE],
     [name |-> "m", type |-> "DOT_INTERMEDIATE", dims |-> d,                 length |-> 0, data |-> FALSE],
     [name |-> "y", type |-> "DOT_OUTPUT",       dims |-> <<1, 0, 0, d[4]>>, length |-> 0, data |-> FALSE] >>

\* Every variable but last.
Rest == << file, async, nireq, operands, request_queue, requests, task_queue,
           lltask_queue, tasks, lltasks, inflight, loaded, crashed,
           popped, delivered >>

InitFill ==
  /\ async = FALSE
  /\ nireq = 1
  /\ \E d1, d2, d3, d4 \in Dims : operands = ShapedOperands(<<d1, d2, d3, d4>>)
  /\ file = ModelFileOf(operands, layers_num)
  /\ request_queue = << >>
  /\ requests = << [operands |-> copy_operands(operands), lltask |-> 0, mem |-> "live"] >>
  /\ \E h, w \in FrameDims :
       tasks = << [NewTask(P("x", "y", 1, <<h, w>>), FALSE, TRUE)
                     EXCEPT !.inference_todo = 1] >>
  /\ task_queue = <<1>>
  /\ lltasks = << NewLLTask(1) >>
  /\ lltask_queue = <<1>>
  /\ inflight = {}
  /\ loaded = TRUE
  /\ crashed = FALSE
  /\ popped = << >>
  /\ delivered = << >>
  /\ last = NoCall

FillInput ==
  /\ Ready /\ lltask_queue # << >>
  /\ \E ub \in UBChoices(FALSE) :
       Call("fill", fill_model_input_native(St, 1, ub), 1, 1)

\* ff_calculate_operand_data_length on an operand of the store.
CalculateLength ==
  /\ Ready /\ lltask_queue # << >>
  /\ \E i \in DOMAIN operands :
       last' = [NoCall EXCEPT !.op = "length", !.task = i,
                              !.value = ff_calculate_operand_data_length(operands[i])]
  /\ UNCHANGED Rest

NextFill ==
  \/ FillInput
  \/ CalculateLength
  \/ Return

SpecFill == InitFill /\ [][NextFill]_vars

\* ------------------------------------------------------- loading on its own
\* ff_dnn_load_model_native over a range of files, well-formed and not, and
\* get_input_native on what it loaded.
LayerRecs == [known : BOOLEAN, parsed : {0, 8}]
OperandRecs ==
  [index : {0 - 1, 0, 1, 2}, name_len : {1, 2}, name : {"x", "y"},
   type : {"DOT_INPUT", "DOT_OUTPUT"}, dims : {<<1, 0, 0, 3>>, <<2, 0, 0, 3>>}]
GoodHeader == [magic |-> TRUE, major |-> major_version_expected]
Headers == { GoodHeader, [magic |-> FALSE, major |-> 1], [magic |-> TRUE, major |-> 2] }
GoodLayer == [known |-> TRUE, parsed |-> 8]
GoodOperand ==
  [index |-> 0, name_len |-> 1, name |-> "x", type |-> "DOT_INPUT", dims |-> <<1, 0, 0, 3>>]
\* A file with this content whose length is off by slack bytes.
FileOf(h, ls, os, slack) ==
  LET f == [magic |-> h.magic, major |-> h.major,
            layers_num |-> Len(ls), operands_num |-> Len(os),
            layers |-> ls, oprds |-> os, size |-> 0]
  IN  [f EXCEPT !.size = FileLength(f) + slack]
\* Every header and every layer record over sound operands, and every one
\* or two operand records behind a sound header and layer.
Files ==
  {ModelFile} \cup
  { FileOf(h, <<l>>, <<GoodOperand>>, slack) :
      h \in Headers, l \in LayerRecs, slack \in {0 - 1, 0, 1} } \cup
  { FileOf(GoodHeader, <<GoodLayer>>, os, slack) :
      os \in [1..1 -> OperandRecs] \cup [1..2 -> OperandRecs],
      slack \in {0 - 1, 0, 1} }
LoadUBOutcomes == {"crash", "silent"}  \* a write outside the store: the process dies, or not

InitLoad ==
  /\ file \in Files
  /\ async = FALSE
  /\ nireq \in 1..MaxNireq
  /\ operands = << >>
  /\ request_queue = << >>
  /\ requests = << >>
  /\ task_queue = << >>
  /\ lltask_queue = << >>
  /\ tasks = << >>
  /\ lltasks = << >>
  /\ inflight = {}
  /\ loaded = FALSE
  /\ crashed = FALSE
  /\ popped = << >>
  /\ delivered = << >>
  /\ last = NoCall

\* A load: the state it leaves and the record of it.
Loaded(out) ==
  /\ Install(out.s)
  /\ last' = [NoCall EXCEPT !.op = "load", !.ret = out.ret,
                            !.value = out.dnn_size, !.stray = out.stray]

LoadModel ==
  /\ ~loaded /\ ~crashed /\ last = NoCall
  /\ \E ub \in LoadUBOutcomes :
       Loaded(ff_dnn_load_model_native(file, [async |-> async, nireq |-> nireq], ub))

GetInput ==
  /\ Ready
  /\ \E name \in {"x", "y", "z"} :
       Call("get_input", get_input_native(St, name), 0, 0)

NextLoad ==
  \/ LoadModel
  \/ GetInput
  \/ Return

SpecLoad == InitLoad /\ [][NextLoad]_vars

\* ================================================================== claims
InPool(r) == \E k \in DOMAIN request_queue : request_queue[k] = r
CheckedOut == {e.req : e \in inflight}
InTaskQueue(t) == \E k \in DOMAIN task_queue : task_queue[k] = t
Delivered(t) == \E k \in DOMAIN delivered : delivered[k] = t
Complete(t) == tasks[t].inference_done = tasks[t].inference_todo
FullRun == [i \in 1..layers_num |-> i - 1]
\* The lltasks of task t whose inference went through: every layer ran, in
\* order, and the callback found the output.
Finished(t) == {ll \in DOMAIN lltasks : /\ lltasks[ll].task = t
                                        /\ lltasks[ll].stage = "done"
                                        /\ lltasks[ll].layers = FullRun}

\* C1: while the model is loaded, the requests idle in request_queue plus the
\* requests checked out by an execution number exactly nireq (a failing
\* request comes back to the pool once).
C1_PoolCardinality ==
  Running => Len(request_queue) + Cardinality(CheckedOut) = nireq

\* C2: a request is never in the pool twice, never in the pool while an
\* execution holds it, and never held by two executions.
C2_RequestExclusive ==
  Running =>
    /\ \A i, j \in DOMAIN request_queue : i # j => request_queue[i] # request_queue[j]
    /\ \A e \in inflight : ~InPool(e.req)
    /\ \A e, f \in inflight : e.req = f.req => e = f

\* C3 as stated: with no idle request, execute and flush return an error,
\* run no layer and start no execution; at most nireq executions are in flight.
C3_Original ==
  /\ (last.op \in {"execute", "flush"} /\ last.idle = 0) =>
        (last.ret \in Errors /\ last.ran = 0 /\ last.started = 0)
  /\ Cardinality(inflight) <= nireq

\* C3 amended: with no idle request, execute, and flush when a subtask is
\* pending, return an error, run no layer and start no execution (flush with
\* nothing pending returns success without acquiring); at most nireq
\* executions are in flight.
C3_BoundedConcurrency ==
  /\ (last.idle = 0 /\ (last.op = "execute" \/ (last.op = "flush" /\ last.pending > 0))) =>
        (last.ret \in Errors /\ last.ran = 0 /\ last.started = 0)
  /\ (last.op = "flush" /\ last.pending = 0) =>
        (last.ret = DNN_SUCCESS /\ last.ran = 0 /\ last.started = 0)
  /\ Cardinality(inflight) <= nireq

C3_Witness ==
  /\ last.op = "flush" /\ last.idle = 0 /\ last.pending > 0 /\ last.ret = EINVAL
  /\ Cardinality(inflight) = nireq /\ nireq > 1

\* C4: an execute call asking for more than one output returns an error and
\* changes nothing: no task or subtask is created or queued, no request is
\* taken or touched.
C4_MultiOutputRejected ==
  (last.op = "execute" /\ last.nb_output # 1) =>
    (last.ret \in Errors /\ last.same /\ last.task = 0)

C4_Witness ==
  /\ last.op = "execute" /\ last.nb_output = 2 /\ last.ret = EINVAL
  /\ Len(task_queue) > 0 /\ Len(request_queue) > 0

\* C5: a task counts as complete exactly when one subtask derived from it
\* has finished successfully, and polling hands out (and removes) only
\* complete tasks.
C5_CompletionCounting ==
  /\ \A t \in DOMAIN tasks :
        /\ tasks[t].inference_todo = 1
        /\ Complete(t) <=> Cardinality(Finished(t)) = 1
  /\ \A t \in DOMAIN tasks : Delivered(t) => Cardinality(Finished(t)) = 1
  /\ (last.op = "get_result" /\ last.task # 0 /\ Cardinality(Finished(last.task)) # 1) =>
        (last.ret = "DAST_NOT_READY" /\ ~Delivered(last.task))

C5_Witness ==
  /\ last.op = "get_result" /\ last.ret = "DAST_NOT_READY"
  /\ \E t \in DOMAIN tasks : Delivered(t)
  /\ \E ll \in DOMAIN lltasks : /\ InTaskQueue(lltasks[ll].task)
                                /\ lltasks[ll].stage = "no_output"

\* C6: in a synchronous model, execute returns success exactly when the task
\* it submitted is complete at the return, and an error when the fill, a
\* layer or the output lookup of that task failed.
C6_SyncResult ==
  (~async /\ last.op = "execute" /\ last.task # 0) =>
    /\ last.ret = DNN_SUCCESS <=> Complete(last.task)
    /\ \A ll \in DOMAIN lltasks :
          (lltasks[ll].task = last.task
             /\ lltasks[ll].stage \in {"fill_failed", "layer_failed", "no_output"})
          => last.ret \in Errors

C6_Witness ==
  /\ ~async /\ last.op = "execute" /\ last.task > 1
  /\ last.ret = DNN_SUCCESS /\ Complete(last.task)
  /\ \E ll \in DOMAIN lltasks : lltasks[ll].stage = "no_output"

\* C7: subtasks are popped in the order their tasks were submitted: the k-th
\* pop takes the k-th subtask created.
C7_SubtaskFIFO ==
  \A k \in DOMAIN popped : popped[k] = k

C7_Witness ==
  /\ Len(popped) >= 2
  /\ last.op = "flush" /\ last.pending >= 2 /\ last.ret = DNN_SUCCESS

\* C8: polling hands tasks out in submission order, each once, whatever the
\* order in which their callbacks ran.
C8_DeliveryOrder ==
  /\ \A i, j \in DOMAIN delivered : i < j => delivered[i] < delivered[j]
  /\ \A t \in DOMAIN tasks : Delivered(t) => (~InTaskQueue(t) /\ tasks[t].mem = "freed")
  /\ \A i, j \in DOMAIN task_queue : i < j => task_queue[i] < task_queue[j]

C8_Witness ==
  /\ Len(delivered) >= 1
  /\ \E a, b \in DOMAIN tasks :
        /\ a < b /\ InTaskQueue(a) /\ InTaskQueue(b)
        /\ Complete(b) /\ ~Complete(a)
        /\ \E e \in inflight : lltasks[e.ll].task = a

\* C9: when flush returns success no subtask is left in the subtask queue.
C9_FlushDrains ==
  (last.op = "flush" /\ last.ret = DNN_SUCCESS) => last.left = 0

\* C10: teardown returns with both queues and the pool empty and the frames
\* of every task that was queued released, and runs no layer and no callback.
C10_TeardownSafe ==
  last.op = "free" =>
    /\ ~crashed /\ ~loaded
    /\ request_queue = << >> /\ task_queue = << >> /\ lltask_queue = << >>
    /\ \A t \in last.queued : /\ tasks[t].in_frame.st = "released"
                               /\ tasks[t].out_frame.st = "released"
    /\ last.ran = 0 /\ last.cbs = 0

\* ------------------------------------------------------ shapes and lengths
Abs(x) == IF x < 0 THEN 0 - x ELSE x
\* a * b for a, b >= 0, or 0 - 1 when it is above INT32_MAX (or a already is).
CapMul(a, b) ==
  IF a < 0 THEN a
  ELSE IF a = 0 \/ b = 0 THEN 0
  ELSE IF b > INT32_MAX \div a THEN 0 - 1
  ELSE a * b
\* The integer 4 * d[1] * d[2] * d[3] * d[4]: whether its magnitude is at
\* most INT32_MAX, and then its value.
ByteLength(d) ==
  LET mag == IF \E i \in 1..4 : d[i] = 0 THEN 0
             ELSE CapMul(CapMul(CapMul(CapMul(4, Abs(d[1])), Abs(d[2])), Abs(d[3])), Abs(d[4]))
      neg == Cardinality({i \in 1..4 : d[i] < 0}) % 2 = 1
  IN  [fits |-> mag >= 0, value |-> IF neg THEN 0 - mag ELSE mag]

\* C11: after a successful fill for a task whose frame is H x W, the input
\* operand of the request's clone has shape [1, H, W, C], batch and C as in
\* the template, and its length is 4*H*W*C.
C11_ShapePropagation ==
  (last.op = "fill" /\ last.ret = DNN_SUCCESS) =>
    LET i == FindOperand(operands, tasks[1].input_name)
        oprd == requests[1].operands[i]
    IN  /\ oprd.dims = <<1, tasks[1].in_frame.h, tasks[1].in_frame.w, operands[i].dims[4]>>
        /\ oprd.dims[1] = operands[i].dims[1]
        /\ ByteLength(oprd.dims).fits
        /\ oprd.length = ByteLength(oprd.dims).value
        /\ oprd.data

C11_Witness ==
  /\ last.op = "fill" /\ last.ret = DNN_SUCCESS
  /\ tasks[1].in_frame.h = 23170 /\ tasks[1].in_frame.w = 3
  /\ requests[1].operands[1].dims = <<1, 23170, 3, 3>>
  /\ requests[1].operands[1].length = 834120

\* C12 as stated: ff_calculate_operand_data_length returns 4*d0*d1*d2*d3
\* when that product fits a 32-bit signed integer and 0 otherwise, and fill
\* fails without a buffer when the length is 0.
C12_Original ==
  /\ last.op = "length" =>
        last.value = IF ByteLength(operands[last.task].dims).fits
                     THEN ByteLength(operands[last.task].dims).value ELSE 0
  /\ (last.op = "fill" /\ requests[1].operands[1].length = 0) =>
        (last.ret \in Errors /\ ~requests[1].operands[1].data)

\* C12 amended: for dimensions none of which is negative the function returns
\* 4*d0*d1*d2*d3 when that fits a 32-bit signed integer and 0 otherwise; it
\* returns 0 when a dimension is negative; it never returns a negative
\* value; fill fails without a buffer when the length is 0.
C12_LengthOverflow ==
  /\ last.op = "length" =>
        /\ last.value >= 0
        /\ last.value = IF /\ \A k \in 1..4 : operands[last.task].dims[k] >= 0
                           /\ ByteLength(operands[last.task].dims).fits
                        THEN ByteLength(operands[last.task].dims).value ELSE 0
  /\ (last.op = "fill" /\ requests[1].operands[1].length = 0) =>
        (last.ret \in Errors /\ ~requests[1].operands[1].data)

C12_Witness ==
  /\ last.op = "length" /\ last.value = 0
  /\ operands[last.task].dims = <<3, 32768, 32768, 1>>

\* ----------------------------------------------------------------- loading
\* C13: a load returns a model only if its running total of bytes equals
\* the length of the file, which is then the length the layout gives; with
\* any other total it returns no model and leaves nothing built.
C13_StrictByteAccounting ==
  last.op = "load" =>
    /\ last.ret = "MODEL" => (last.value = file.size /\ file.size = FileLength(file))
    /\ last.value # file.size => last.ret # "MODEL"
    /\ last.ret = "MODEL" <=> loaded
    /\ last.ret = "NULL" =>
          (operands = << >> /\ requests = << >> /\ request_queue = << >>)

C13_Witness ==
  /\ last.op = "load" /\ last.ret = "NULL" /\ ~loaded
  /\ last.value = FileLength(file) /\ file.size = FileLength(file) + 1
  /\ file.operands_num = 2

\* C14: a load that meets an operand record whose index is outside
\* 0 .. operands_num - 1 fails, and no record is stored outside the store.
C14_OperandIndexRange ==
  last.op = "load" =>
    /\ (\E i \in 1..file.operands_num :
           file.oprds[i].index \notin 0..(file.operands_num - 1))
         => (last.ret = "NULL" /\ ~crashed)
    /\ last.stray = {}

\* C15: every input operand of a loaded model, in the store and in every
\* request's clone, has batch 1, and the assertion of get_input_native holds.
C15_InputBatch ==
  /\ loaded =>
        /\ \A i \in DOMAIN operands :
              operands[i].type = "DOT_INPUT" => operands[i].dims[1] = 1
        /\ \A r \in DOMAIN requests : \A i \in DOMAIN requests[r].operands :
              requests[r].operands[i].type = "DOT_INPUT"
                => requests[r].operands[i].dims[1] = 1
  /\ last.op = "get_input" => (~crashed /\ last.ret # CRASH)

C15_Witness ==
  /\ last.op = "get_input" /\ last.ret = DNN_SUCCESS
  /\ \E i \in DOMAIN operands :
       operands[i].type = "DOT_OUTPUT" /\ operands[i].dims[1] = 2
  /\ \A r \in DOMAIN requests : requests[r].operands = operands

\* ------------------------------------------------------------ the template
\* The request a step can be holding: the one at the front of the pool,
\* which an API call acquires, or one an executor thread runs.
Holder(r) ==
  \/ request_queue # << >> /\ r = ff_queue_peek_front(request_queue)
  \/ r \in CheckedOut

\* C16: no step of a loaded model but teardown changes the model's operands (the
\* layer list is fixed), and a step that changes the operands of a request
\* is one that holds that request.
C16_TemplateImmutable ==
  [][(loaded /\ last'.op # "free") =>
       /\ operands' = operands
       /\ operands = LoadedOperands
       /\ \A r \in DOMAIN requests :
            requests'[r].operands # requests[r].operands => Holder(r)]_vars

C16_Witness ==
  /\ Running /\ nireq = 2
  /\ operands = LoadedOperands
  /\ requests[1].operands # NoOperands
  /\ requests[1].operands[3].data /\ requests[1].operands[1].dims = <<1, 2, 3, 3>>
  /\ requests[2].operands = copy_operands(operands)

\* ---------------------------------------------------------------- layers
\* C17: the layers run for an inference are 0, 1, ... in that order, each at
\* most once; an inference whose layer failed ran no layer after it, and
\* its task is not marked completed.
C17_LayerOrder ==
  \A ll \in DOMAIN lltasks :
    /\ Len(lltasks[ll].layers) <= layers_num
    /\ \A i \in DOMAIN lltasks[ll].layers : lltasks[ll].layers[i] = i - 1
    /\ lltasks[ll].stage \in {"ran", "done", "no_output"} => lltasks[ll].layers = FullRun
    /\ lltasks[ll].stage # "layer_failed" => lltasks[ll].failed = layers_num
    /\ lltasks[ll].stage = "layer_failed" =>
          /\ lltasks[ll].failed < layers_num
          /\ Len(lltasks[ll].layers) = lltasks[ll].failed + 1
          /\ lltasks[ll].task \in DOMAIN tasks =>
                (tasks[lltasks[ll].task].mem = "live" => ~Complete(lltasks[ll].task))

C17_Witness ==
  /\ Running
  /\ \E ll \in DOMAIN lltasks :
       /\ lltasks[ll].stage = "layer_failed" /\ lltasks[ll].layers = <<0>>
       /\ tasks[lltasks[ll].task].async /\ ~Complete(lltasks[ll].task)
  /\ \E ll \in DOMAIN lltasks :
       lltasks[ll].stage = "done" /\ lltasks[ll].layers = FullRun

\* -------------------------------------------------------------- subtasks
\* The request lltask ll was bound to when it was popped.
BoundTo(ll) == {r \in DOMAIN requests : requests[r].lltask = ll}

\* C18: an lltask is popped from lltask_queue at most once and bound to one
\* request then, and once that request is back in the pool, no longer held
\* by an execution, the lltask is no longer allocated.
C18_SubtaskLifecycle ==
  /\ \A i, j \in DOMAIN popped : popped[i] = popped[j] => i = j
  /\ \A i \in DOMAIN popped : ~(\E k \in DOMAIN lltask_queue : lltask_queue[k] = popped[i])
  /\ Running =>
       \A i \in DOMAIN popped : \A r \in BoundTo(popped[i]) :
         (InPool(r) /\ r \notin CheckedOut /\ last = NoCall)
           => lltasks[popped[i]].mem # "live"

\* ---------------------------------------------------- asynchronous failure
\* The lltasks of asynchronous tasks whose inference failed in a layer or
\* found no output operand.
FailedAsync ==
  {ll \in DOMAIN lltasks : /\ tasks[lltasks[ll].task].async
                           /\ lltasks[ll].stage \in {"layer_failed", "no_output"}}

\* C19: once the inference of an asynchronous task has failed, the request
\* that served it is back in the pool, the task's inference_done stays below
\* inference_todo, the task is never handed out, and its lltask is not
\* queued again.
C19_AsyncFailure ==
  Running =>
    \A ll \in FailedAsync :
      /\ \A r \in BoundTo(ll) : InPool(r) /\ r \notin CheckedOut
      /\ ~Complete(lltasks[ll].task)
      /\ ~Delivered(lltasks[ll].task)
      /\ InTaskQueue(lltasks[ll].task)
      /\ \A k \in DOMAIN lltask_queue : lltask_queue[k] # ll
      /\ Len(lltasks[ll].layers) <= layers_num

C19_Witness ==
  /\ Running /\ nireq = 1
  /\ last.op = "get_result" /\ last.ret = "DAST_NOT_READY"
  /\ \E ll \in FailedAsync : last.task = lltasks[ll].task
  /\ \E ll \in FailedAsync :
       /\ lltasks[ll].stage = "layer_failed"
       /\ BoundTo(ll) = {1} /\ request_queue = <<1>>
  /\ \E ll \in FailedAsync : lltasks[ll].stage = "no_output"

\* --------------------------------------------------------- idle requests
\* C20: every request idle in the pool holds its operand array, with one
\* entry per operand of the model, and no call dies reading the operands of
\* the request it acquired.
C20_IdleRequestsHoldOperands ==
  /\ Running =>
       \A r \in DOMAIN requests :
         (InPool(r) /\ r \notin CheckedOut)
           => (requests[r].operands # NoOperands
               /\ Len(requests[r].operands) = Len(operands))
  /\ last.op \in {"execute", "flush", "get_output"} => last.ret # CRASH

\* -------------------------------------------------------- rejected tasks
\* The lltasks made from task t that are in lltask_queue.
QueuedFor(t) ==
  {k \in DOMAIN lltask_queue : lltasks[lltask_queue[k]].task = t}

\* C21: after ff_dnn_execute_model_native has returned an error, the task of
\* the call is not in task_queue, no lltask made from it is in lltask_queue,
\* and lltask_queue is as long as it was on entry.
C21_ErrorLeavesQueues ==
  (last.op = "execute" /\ last.ret \in Errors) =>
    /\ ~InTaskQueue(last.task)
    /\ QueuedFor(last.task) = {}
    /\ Len(lltask_queue) = last.pending

\* ------------------------------------------------------- dangling lltasks
\* C22: every lltask in lltask_queue points at a task that still exists, and
\* after get_output_native has returned, the lltask made from its TaskItem
\* is not in lltask_queue: it is the one the call consumed.
C22_QueuedSubtasksLive ==
  Running =>
    /\ \A k \in DOMAIN lltask_queue :
         tasks[lltasks[lltask_queue[k]].task].mem = "live"
    /\ last.op = "get_output" =>
         /\ QueuedFor(last.task) = {}
         /\ \A ll \in DOMAIN lltasks :
              lltasks[ll].task = last.task => (\E i \in DOMAIN popped : popped[i] = ll)

\* -------------------------------------------------------------- counters
\* The tasks that exist: accepted, and neither handed out nor gone with the
\* call that made them.
LiveTasks == {t \in DOMAIN tasks : tasks[t].mem = "live"}

\* C23: every task that exists has inference_todo = 1 and inference_done 0
\* or 1, and no step lowers inference_done.
C23_CounterBounds ==
  [][/\ \A t \in DOMAIN tasks' :
          tasks'[t].mem = "live" =>
            /\ tasks'[t].inference_todo = 1
            /\ tasks'[t].inference_done \in {0, 1}
     /\ \A t \in LiveTasks :
          tasks'[t].mem = "live" => tasks'[t].inference_done >= tasks[t].inference_done]_vars

C23_Witness ==
  /\ Running /\ async /\ nireq = 1
  /\ Len(tasks) = 3 /\ LiveTasks = {1, 2, 3}
  /\ tasks[1].inference_done = 0 /\ (\E ll \in FailedAsync : lltasks[ll].task = 1)
  /\ tasks[2].inference_done = 1 /\ Finished(2) # {}
  /\ \E r \in DOMAIN requests : requests[r].lltask = 3

\* --------------------------------------------------------------- delivery
\* The executor runs every thread it started to its end, and the caller
\* takes each result and polls again and again.
Fairness ==
  /\ WF_vars(WorkerInference)
  /\ WF_vars(WorkerCallback)
  /\ WF_vars(Return)
  /\ SF_vars(GetResult)

SpecLive == Init /\ [][Next]_vars /\ Fairness

\* Task t is in task_queue with its inference done.
AwaitsDelivery(t) ==
  /\ Running
  /\ t \in DOMAIN tasks
  /\ InTaskQueue(t)
  /\ Finished(t) # {}
  /\ Complete(t)

\* C24: a queued task whose inference completed is eventually handed out by
\* ff_dnn_get_result_native, unless the model is torn down or the process
\* dies first.
C24_EventuallyDelivered ==
  \A t \in 1..MaxTasks : AwaitsDelivery(t) ~> (Delivered(t) \/ ~Running)

====
